---- MODULE Spec2Model ----
(***************************************************************************)
(* Model of the Minesweeper knowledge base of src/minesweeper.py: the      *)
(* classes Sentence and MinesweeperAI, and the part of Minesweeper that    *)
(* produces the observations (nearby_mines).                               *)
(*                                                                         *)
(* A cell is a pair <<row, col>>.  A Sentence object is a record           *)
(* [cells, count].  self.knowledge is a sequence of such records; the      *)
(* objects of the list are pairwise distinct objects, so that an in-place  *)
(* mutation of an object is the replacement of one element of the          *)
(* sequence.  The loops of add_knowledge are taken one iteration per step. *)
(***************************************************************************)
EXTENDS Integers, FiniteSets, Sequences, TLC

\* MinesweeperAI.__init__(height, width): the board of the model.
Height == 3
Width == 3

\* Bounds of the model: mines on the board, calls per game (add_knowledge,
\* and direct calls of mark_mine / mark_safe by the driver), and how many of
\* the calls may be direct calls of mark_mine / mark_safe.
MaxMines == 2
MaxCalls == 3
MaxMarks == 1

Cells == (0 .. Height - 1) \X (0 .. Width - 1)

VARIABLES
    board,            \* Minesweeper.mines: the cells that hold a mine
    moves_made,       \* MinesweeperAI.moves_made
    mines,            \* MinesweeperAI.mines
    safes,            \* MinesweeperAI.safes
    knowledge,        \* MinesweeperAI.knowledge
    pc,               \* position inside add_knowledge, "idle" between calls
    pos,              \* index of the running `for ... in self.knowledge` loop
    inferences,       \* local list `inferences` of add_knowledge
    final_knowledge,  \* local list of add_known_safes_and_mines (as indices)
    last,             \* the operation that returned last
    ret,              \* value returned by the last make_safe_move or
                      \* make_random_move
    marks,            \* number of direct mark_mine / mark_safe calls so far
    call,             \* the arguments of the last call that took arguments
    possible_moves,   \* local list `possible_moves` of make_random_move
    due               \* the cells the subset rule owed when the last new
                      \* sentence was appended (history, read by no action)

vars == <<board, moves_made, mines, safes, knowledge, pc, pos, inferences,
          final_knowledge, last, ret, marks, call, due, possible_moves>>

----------------------------------------------------------------------------
\* Python values

\* None, and a value that is not None: an optional value is a set of at most
\* one element.
None == {}
Some(x) == {x}

\* Truth value of an optional set (`if safes:`): not None and not empty.
Truthy(o) == \E x \in o : x # {}

----------------------------------------------------------------------------
\* class Minesweeper

nearby_mines(b, cell) ==
    Cardinality({c \in Cells : /\ c # cell
                               /\ c[1] \in (cell[1] - 1) .. (cell[1] + 1)
                               /\ c[2] \in (cell[2] - 1) .. (cell[2] + 1)
                               /\ c \in b})

----------------------------------------------------------------------------
\* class Sentence

Sentence(cells, count) == [cells |-> cells, count |-> count]

Sentence_eq(a, b) == a.cells = b.cells /\ a.count = b.count

known_mines_ge(s) ==
    IF Cardinality(s.cells) >= s.count THEN Some(s.cells) ELSE None

known_mines(s) ==
    IF Cardinality(s.cells) = s.count THEN Some(s.cells) ELSE None

known_safes_if_empty(s) ==
    IF Cardinality(s.cells) = 0 THEN Some(s.cells) ELSE None

known_safes(s) ==
    IF s.count = 0 THEN Some(s.cells) ELSE None

Sentence_mark_mine_nodec(s, cell) ==
    [s EXCEPT !.cells = @ \ {cell}]

Sentence_mark_mine_always(s, cell) ==
    Sentence(s.cells \ {cell}, s.count - 1)

Sentence_mark_mine(s, cell) ==
    IF cell \in s.cells
        THEN [cells |-> s.cells \ {cell}, count |-> s.count - 1]
        ELSE s

Sentence_mark_safe_dec(s, cell) ==
    IF cell \in s.cells
        THEN Sentence(s.cells \ {cell}, s.count - 1)
        ELSE s

Sentence_mark_safe(s, cell) ==
    [s EXCEPT !.cells = @ \ {cell}]

----------------------------------------------------------------------------
\* class MinesweeperAI: the operations on the store (safes, mines, knowledge)

Store == [safes |-> safes, mines |-> mines, knowledge |-> knowledge]

mark_mine_exclusive(st, cell) ==
    [st EXCEPT !.mines = @ \cup {cell},
               !.safes = @ \ {cell},
               !.knowledge = [n \in DOMAIN @ |-> Sentence_mark_mine(@[n], cell)]]

mark_mine(st, cell) ==
    [st EXCEPT !.mines = @ \cup {cell},
               !.knowledge = [n \in DOMAIN @ |-> Sentence_mark_mine(@[n], cell)]]

mark_safe_exclusive(st, cell) ==
    [st EXCEPT !.safes = @ \cup {cell},
               !.mines = @ \ {cell},
               !.knowledge = [n \in DOMAIN @ |-> Sentence_mark_safe(@[n], cell)]]

mark_safe_sentences_only(st, cell) ==
    [st EXCEPT !.knowledge = [n \in DOMAIN @ |-> Sentence_mark_safe(@[n], cell)]]

mark_safe(st, cell) ==
    [st EXCEPT !.safes = @ \cup {cell},
               !.knowledge = [n \in DOMAIN @ |-> Sentence_mark_safe(@[n], cell)]]

\* `for mine in cells: self.mark_mine(mine)`
RECURSIVE mark_mine_each(_, _)
mark_mine_each(st, cells) ==
    IF cells = {} THEN st
    ELSE LET mine == CHOOSE c \in cells : TRUE
         IN  mark_mine_each(mark_mine(st, mine), cells \ {mine})

\* `for safe in cells: self.mark_safe(safe)`
RECURSIVE mark_safe_each(_, _)
mark_safe_each(st, cells) ==
    IF cells = {} THEN st
    ELSE LET safe == CHOOSE c \in cells : TRUE
         IN  mark_safe_each(mark_safe(st, safe), cells \ {safe})

\* The in-bounds cells around `cell`, `cell` excluded.
neighbours_short_range(cell) ==
    {c \in Cells : /\ c # cell
                   /\ c[1] \in (cell[1] - 1) .. cell[1]
                   /\ c[2] \in (cell[2] - 1) .. cell[2]}

neighbours(cell) ==
    {c \in Cells : /\ c # cell
                   /\ c[1] \in (cell[1] - 1) .. (cell[1] + 1)
                   /\ c[2] \in (cell[2] - 1) .. (cell[2] + 1)}

new_sentence_of_keepcount(st, cell, count) ==
    Sentence({c \in neighbours(cell) : c \notin st.mines /\ c \notin st.safes},
             count)

\* The sentence add_knowledge builds for (cell, count) in the store st.
new_sentence_of(st, cell, count) ==
    Sentence({c \in neighbours(cell) : c \notin st.mines /\ c \notin st.safes},
             count - Cardinality(neighbours(cell) \cap st.mines))

\* One iteration of the inference loop, on self.knowledge[p]; infs is the
\* list `inferences`.  The result is the store and the list.
infer_one_way(st, infs, p) ==
    LET sentence == st.knowledge[p]
        new_sentence == st.knowledge[Len(st.knowledge)]
        diff == new_sentence.cells \ sentence.cells
    IN  IF Sentence_eq(sentence, new_sentence)
               \/ ~(sentence.cells \subseteq new_sentence.cells)
            THEN [st |-> st, inferences |-> infs]
        ELSE IF sentence.count = new_sentence.count
            THEN [st |-> mark_safe_each(st, diff), inferences |-> infs]
        ELSE IF Cardinality(diff) = new_sentence.count - sentence.count
            THEN [st |-> mark_mine_each(st, diff), inferences |-> infs]
        ELSE [st |-> st,
              inferences |-> Append(infs,
                  Sentence(diff, new_sentence.count - sentence.count))]

infer(st, infs, p) ==
    LET sentence == st.knowledge[p]
        new_sentence == st.knowledge[Len(st.knowledge)]
    IN  IF Sentence_eq(sentence, new_sentence)
            THEN [st |-> st, inferences |-> infs]
        ELSE IF sentence.cells \subseteq new_sentence.cells
            THEN LET diff == new_sentence.cells \ sentence.cells
                 IN  IF sentence.count = new_sentence.count
                         THEN [st |-> mark_safe_each(st, diff), inferences |-> infs]
                     ELSE IF Cardinality(diff) = new_sentence.count - sentence.count
                         THEN [st |-> mark_mine_each(st, diff), inferences |-> infs]
                     ELSE [st |-> st,
                           inferences |-> Append(infs,
                               Sentence(diff, new_sentence.count - sentence.count))]
        ELSE IF new_sentence.cells \subseteq sentence.cells
            THEN LET diff == sentence.cells \ new_sentence.cells
                 IN  IF sentence.count = new_sentence.count
                         THEN [st |-> mark_safe_each(st, diff), inferences |-> infs]
                     ELSE IF Cardinality(diff) = sentence.count - new_sentence.count
                         THEN [st |-> mark_mine_each(st, diff), inferences |-> infs]
                     ELSE [st |-> st,
                           inferences |-> Append(infs,
                               Sentence(diff, sentence.count - new_sentence.count))]
        ELSE [st |-> st, inferences |-> infs]

RECURSIVE unique_from(_, _, _)
unique_from(k, n, unique_knowledge) ==
    IF n > Len(k) THEN unique_knowledge
    ELSE unique_from(k, n + 1,
             IF \E u \in DOMAIN unique_knowledge :
                    Sentence_eq(unique_knowledge[u], k[n])
                 THEN unique_knowledge
                 ELSE Append(unique_knowledge, k[n]))

remove_duplicates(k) == unique_from(k, 1, << >>)

\* One iteration of the loop of add_known_safes_and_mines, on
\* self.knowledge[p]; final is final_knowledge, as indices into self.knowledge
\* (the objects it holds are still mutated by the later iterations).
harvest(st, final, p) ==
    LET s == st.knowledge[p]
        s_safes == known_safes(s)
        s_mines == known_mines(s)
        st1 == IF Truthy(s_safes)
                   THEN mark_safe_each(st, CHOOSE x \in s_safes : TRUE) ELSE st
        st2 == IF Truthy(s_mines)
                   THEN mark_mine_each(st1, CHOOSE x \in s_mines : TRUE) ELSE st1
    IN  [st |-> st2,
         final |-> IF ~(Truthy(s_safes) \/ Truthy(s_mines))
                       THEN Append(final, p) ELSE final]

\* The values make_safe_move may return (set.pop() takes an arbitrary element).
make_safe_move_any_safe(sf, mm) ==
    IF sf = {} THEN {None} ELSE {Some(c) : c \in sf}

make_safe_move(sf, mm) ==
    LET safeCells == sf \ mm
    IN  IF safeCells = {} THEN {None} ELSE {Some(c) : c \in safeCells}

\* safes and moves_made after make_safe_move has returned r: `safeCells` is a
\* new set, and pop() takes the cell out of that set only.
make_safe_move_pops_safes(sf, mm, r) ==
    [safes |-> sf \ r, moves_made |-> mm]

make_safe_move_effect(sf, mm, r) ==
    [safes |-> sf, moves_made |-> mm]

\* The test of make_random_move on the cell it has drawn.
random_move_ok_unplayed(mm, mn, random_move) ==
    random_move \notin mm

random_move_ok(mm, mn, random_move) ==
    random_move \notin mm /\ random_move \notin mn

\* What the subset rule owes for the sentence just appended to k (the last
\* one) against each older sentence S that is a strict subset or a strict
\* superset of it: the difference is safe when the counts are equal, and holds
\* only mines when the count difference is the size of the difference.
subset_due(k) ==
    LET N == k[Len(k)]
        older == {k[n] : n \in 1 .. Len(k) - 1}
        pairs == {<<S, N>> : S \in {x \in older : x.cells \subseteq N.cells
                                                  /\ x.cells # N.cells}}
                 \cup {<<N, S>> : S \in {x \in older : N.cells \subseteq x.cells
                                                       /\ x.cells # N.cells}}
    IN  [safe |-> UNION {p[2].cells \ p[1].cells :
                     p \in {q \in pairs : q[2].count = q[1].count}},
         mine |-> UNION {p[2].cells \ p[1].cells :
                     p \in {q \in pairs : q[2].count - q[1].count
                                            = Cardinality(q[2].cells \ q[1].cells)}}]

----------------------------------------------------------------------------
\* The state machine

Init ==
    /\ board \in {b \in SUBSET Cells : Cardinality(b) <= MaxMines}
    /\ moves_made = {}
    /\ mines = {}
    /\ safes = {}
    /\ knowledge = << >>
    /\ pc = "idle"
    /\ pos = 0
    /\ inferences = << >>
    /\ final_knowledge = << >>
    /\ last = "init"
    /\ ret = None
    /\ marks = 0
    /\ call = None
    /\ due = [safe |-> {}, mine |-> {}]
    /\ possible_moves = {}

\* add_knowledge(cell, count) up to the append of the new sentence.
add_knowledge(cell, count) ==
    /\ pc = "idle"
    /\ moves_made' = moves_made \cup {cell}
    /\ LET st == mark_safe(Store, cell)
       IN  /\ safes' = st.safes
           /\ mines' = st.mines
           /\ knowledge' = Append(st.knowledge, new_sentence_of(st, cell, count))
    /\ inferences' = << >>
    /\ pos' = 1
    /\ pc' = "infer"
    /\ last' = "add_knowledge"
    /\ ret' = None
    /\ call' = Some([cell |-> cell, count |-> count])
    /\ due' = subset_due(knowledge')
    /\ UNCHANGED <<possible_moves, board, final_knowledge, marks>>

\* One iteration of `for sentence in self.knowledge` of add_knowledge.
add_knowledge_infer ==
    /\ pc = "infer"
    /\ pos <= Len(knowledge)
    /\ LET r == infer(Store, inferences, pos)
       IN  /\ safes' = r.st.safes
           /\ mines' = r.st.mines
           /\ knowledge' = r.st.knowledge
           /\ inferences' = r.inferences
    /\ pos' = pos + 1
    /\ UNCHANGED <<possible_moves, board, moves_made, pc, final_knowledge, last, ret, marks, call, due>>

\* self.knowledge.extend(inferences); self.remove_duplicates()
add_knowledge_extend ==
    /\ pc = "infer"
    /\ pos > Len(knowledge)
    /\ knowledge' = remove_duplicates(knowledge \o inferences)
    /\ inferences' = << >>
    /\ final_knowledge' = << >>
    /\ pos' = 1
    /\ pc' = "harvest"
    /\ UNCHANGED <<possible_moves, board, moves_made, mines, safes, last, ret, marks, call, due>>

\* One iteration of `for s in self.knowledge` of add_known_safes_and_mines.
add_known_safes_and_mines ==
    /\ pc = "harvest"
    /\ pos <= Len(knowledge)
    /\ LET r == harvest(Store, final_knowledge, pos)
       IN  /\ safes' = r.st.safes
           /\ mines' = r.st.mines
           /\ knowledge' = r.st.knowledge
           /\ final_knowledge' = r.final
    /\ pos' = pos + 1
    /\ UNCHANGED <<possible_moves, board, moves_made, pc, inferences, last, ret, marks, call, due>>

\* A harvest that starts over on the kept sentences instead of returning.
add_knowledge_return_restart ==
    /\ pc = "harvest"
    /\ pos > Len(knowledge)
    /\ knowledge' = [n \in 1 .. Len(final_knowledge) |-> knowledge[final_knowledge[n]]]
    /\ final_knowledge' = << >>
    /\ pos' = 1
    /\ UNCHANGED <<possible_moves, board, moves_made, mines, safes, inferences, last, ret, marks, call, due, pc>>

\* self.knowledge = final_knowledge, and the return of add_knowledge.
add_knowledge_return ==
    /\ pc = "harvest"
    /\ pos > Len(knowledge)
    /\ knowledge' = [n \in 1 .. Len(final_knowledge) |-> knowledge[final_knowledge[n]]]
    /\ final_knowledge' = << >>
    /\ pos' = 0
    /\ pc' = "idle"
    /\ UNCHANGED <<possible_moves, board, moves_made, mines, safes, inferences, last, ret, marks, call, due>>

\* The environment probes a cell that holds no mine and was not probed before,
\* and reports the true count.
Observe ==
    /\ Cardinality(moves_made) + marks < MaxCalls
    /\ \E cell \in Cells \ (board \cup moves_made) :
           add_knowledge(cell, nearby_mines(board, cell))

MakeSafeMove ==
    /\ pc = "idle"
    /\ ret' \in make_safe_move(safes, moves_made)
    /\ LET after == make_safe_move_effect(safes, moves_made, ret')
       IN  /\ safes' = after.safes
           /\ moves_made' = after.moves_made
    /\ last' = "make_safe_move"
    /\ UNCHANGED <<possible_moves, board, mines, knowledge, pc, pos, inferences,
                   final_knowledge, marks, call, due>>

\* make_random_move up to the loop: possible_moves holds every cell of the
\* grid.
make_random_move ==
    /\ pc = "idle"
    /\ possible_moves' = Cells
    /\ pc' = "random"
    /\ last' = "make_random_move"
    /\ ret' = None
    /\ UNCHANGED <<board, moves_made, mines, safes, knowledge, pos, inferences,
                   final_knowledge, marks, call, due>>

\* One iteration of the loop of make_random_move: a cell is drawn and removed
\* from possible_moves, and returned if it is neither played nor a known mine.
make_random_move_draw ==
    /\ pc = "random"
    /\ possible_moves # {}
    /\ \E random_move \in possible_moves :
           IF random_move_ok(moves_made, mines, random_move)
               THEN /\ ret' = Some(random_move)
                    /\ possible_moves' = {}
                    /\ pc' = "idle"
               ELSE /\ possible_moves' = possible_moves \ {random_move}
                    /\ UNCHANGED <<ret, pc>>
    /\ UNCHANGED <<board, moves_made, mines, safes, knowledge, pos, inferences,
                   final_knowledge, last, marks, call, due>>

\* The loop of make_random_move has used up possible_moves: the call returns
\* None.
make_random_move_none ==
    /\ pc = "random"
    /\ possible_moves = {}
    /\ ret' = None
    /\ pc' = "idle"
    /\ UNCHANGED <<board, moves_made, mines, safes, knowledge, pos, inferences,
                   final_knowledge, last, marks, call, due, possible_moves>>

\* The driver calls mark_mine(cell) between two observations.
DriverMarkMine(cell) ==
    /\ pc = "idle"
    /\ marks < MaxMarks
    /\ Cardinality(moves_made) + marks < MaxCalls
    /\ LET st == mark_mine(Store, cell)
       IN  /\ safes' = st.safes
           /\ mines' = st.mines
           /\ knowledge' = st.knowledge
    /\ marks' = marks + 1
    /\ last' = "mark_mine"
    /\ ret' = None
    /\ call' = Some([cell |-> cell])
    /\ UNCHANGED <<possible_moves, board, moves_made, pc, pos, inferences, final_knowledge, due>>

\* The driver calls mark_safe(cell) between two observations.
DriverMarkSafe(cell) ==
    /\ pc = "idle"
    /\ marks < MaxMarks
    /\ Cardinality(moves_made) + marks < MaxCalls
    /\ LET st == mark_safe(Store, cell)
       IN  /\ safes' = st.safes
           /\ mines' = st.mines
           /\ knowledge' = st.knowledge
    /\ marks' = marks + 1
    /\ last' = "mark_safe"
    /\ ret' = None
    /\ call' = Some([cell |-> cell])
    /\ UNCHANGED <<possible_moves, board, moves_made, pc, pos, inferences, final_knowledge, due>>

\* The driver flags a cell that holds a mine.
FlagMine == \E cell \in board : DriverMarkMine(cell)

\* The driver marks any cell, whatever the board holds.
AnyMarkMine == \E cell \in Cells : DriverMarkMine(cell)
AnyMarkSafe == \E cell \in Cells : DriverMarkSafe(cell)

Next ==
    \/ Observe
    \/ add_knowledge_infer
    \/ add_knowledge_extend
    \/ add_known_safes_and_mines
    \/ add_knowledge_return
    \/ MakeSafeMove

Spec == Init /\ [][Next]_vars

\* The game with a driver that also flags actual mines.
NextDriver ==
    \/ Next
    \/ FlagMine

SpecDriver == Init /\ [][NextDriver]_vars

\* The game with a driver that also marks arbitrary cells, right or wrong.
\* The marks need not agree with the board, which only supplies the counts of
\* the observations: the games are those on the boards with one mine.
InitAny ==
    /\ Init
    /\ board \in {{c} : c \in Cells}

NextAny ==
    \/ Next
    \/ AnyMarkMine
    \/ AnyMarkSafe

SpecAny == InitAny /\ [][NextAny]_vars

\* make_random_move reads height, width, moves_made and mines only: it is
\* applied to every pair of disjoint sets of cells (the cells played, the
\* cells known to be mines, all the mines of a board), up to the whole grid.
InitMoves ==
    /\ board \in {b \in SUBSET Cells : Cardinality(b) <= MaxMines}
    /\ mines = board
    /\ moves_made \in SUBSET (Cells \ board)
    /\ safes = moves_made
    /\ knowledge = << >>
    /\ pc = "idle"
    /\ pos = 0
    /\ inferences = << >>
    /\ final_knowledge = << >>
    /\ last = "init"
    /\ ret = None
    /\ marks = 0
    /\ call = None
    /\ due = [safe |-> {}, mine |-> {}]
    /\ possible_moves = {}

NextMoves ==
    \/ make_random_move
    \/ make_random_move_draw
    \/ make_random_move_none

SpecMoves == InitMoves /\ [][NextMoves]_vars

\* The passes of add_knowledge run to their end: the interpreter goes on to
\* the next iteration, and no step waits for anything.
\* A single sentence on its own, to which mark_mine and mark_safe are applied
\* with any cell; `call` also records whether the call repeats the one before.
InitSentence ==
    /\ board = {}
    /\ moves_made = {}
    /\ mines = {}
    /\ safes = {}
    /\ \E cells \in SUBSET Cells :
           /\ Cardinality(cells) <= MaxMines + 1
           /\ \E count \in 0 .. MaxMines + 1 :
                  knowledge = <<Sentence(cells, count)>>
    /\ pc = "sentence"
    /\ pos = 0
    /\ inferences = << >>
    /\ final_knowledge = << >>
    /\ last = "init"
    /\ ret = None
    /\ marks = 0
    /\ call = None
    /\ due = [safe |-> {}, mine |-> {}]
    /\ possible_moves = {}

SentenceMarkMine(cell) ==
    /\ pc = "sentence"
    /\ marks <= MaxMarks
    /\ knowledge' = <<Sentence_mark_mine(knowledge[1], cell)>>
    /\ marks' = marks + 1
    /\ last' = "Sentence.mark_mine"
    /\ call' = Some([cell |-> cell,
                     again |-> last = "Sentence.mark_mine"
                               /\ \E c \in call : c.cell = cell])
    /\ UNCHANGED <<possible_moves, board, moves_made, mines, safes, pc, pos,
                   inferences, final_knowledge, ret, due>>

SentenceMarkSafe(cell) ==
    /\ pc = "sentence"
    /\ marks <= MaxMarks
    /\ knowledge' = <<Sentence_mark_safe(knowledge[1], cell)>>
    /\ marks' = marks + 1
    /\ last' = "Sentence.mark_safe"
    /\ call' = Some([cell |-> cell,
                     again |-> last = "Sentence.mark_safe"
                               /\ \E c \in call : c.cell = cell])
    /\ UNCHANGED <<possible_moves, board, moves_made, mines, safes, pc, pos,
                   inferences, final_knowledge, ret, due>>

NextSentence ==
    \/ \E cell \in Cells : SentenceMarkMine(cell)
    \/ \E cell \in Cells : SentenceMarkSafe(cell)

SpecSentence == InitSentence /\ [][NextSentence]_vars

Fairness ==
    /\ WF_vars(add_knowledge_infer)
    /\ WF_vars(add_knowledge_extend)
    /\ WF_vars(add_known_safes_and_mines)
    /\ WF_vars(add_knowledge_return)

SpecFair == InitAny /\ [][Next]_vars /\ Fairness

----------------------------------------------------------------------------
\* Properties

\* add_knowledge has returned and nothing has touched the store since.
Returned == pc = "idle" /\ last = "add_knowledge"

\* The sentences of the store, and those waiting in `inferences`.
Stored == {knowledge[n] : n \in DOMAIN knowledge}
Pending == {inferences[n] : n \in DOMAIN inferences}

\* C1: with true observations of a fixed board, every cell of safes holds no
\* mine of the board and every cell of mines holds a mine of the board, in
\* every reachable state.
GroundTruthSound ==
    /\ safes \cap board = {}
    /\ mines \subseteq board

\* A call has returned with a derived mine and a derived, unprobed safe cell.
GroundTruthSoundWitness ==
    /\ Returned
    /\ mines # {}
    /\ safes \ moves_made # {}

\* C2: with true observations of a fixed board, no cell is in both safes and
\* mines.
SafesMinesDisjoint == safes \cap mines = {}

\* Both sets have grown by deduction from several observations.
SafesMinesDisjointWitness ==
    /\ pc = "idle"
    /\ Cardinality(moves_made) >= 2
    /\ Cardinality(mines) >= 1
    /\ Cardinality(safes) > Cardinality(moves_made)

\* C3: across every step of any sequence of add_knowledge, mark_mine and
\* mark_safe calls, a cell of safes stays in safes and a cell of mines stays
\* in mines.
Monotonic == [][safes \subseteq safes' /\ mines \subseteq mines']_vars

\* A cell marked as a mine was marked safe afterwards (or the reverse) and is
\* still in both sets: neither mark moved it.
MonotonicWitness ==
    /\ marks > 0
    /\ safes \cap mines # {}

\* C4: when add_knowledge returns, the store is closed under the subset rule
\* over all pairs of stored sentences: for A.cells a strict subset of B.cells
\* the difference is already in safes (equal counts), already in mines (count
\* difference equal to the size of the difference), or already stored as a
\* sentence.
SaturationFixedPoint ==
    Returned =>
        \A a, b \in DOMAIN knowledge :
            LET A == knowledge[a]
                B == knowledge[b]
                diff == B.cells \ A.cells
                deltaCount == B.count - A.count
            IN  (A.cells \subseteq B.cells /\ A.cells # B.cells) =>
                    IF deltaCount = 0 THEN diff \subseteq safes
                    ELSE IF deltaCount = Cardinality(diff) THEN diff \subseteq mines
                    ELSE Sentence(diff, deltaCount) \in Stored

\* C5: when add_knowledge returns, no stored sentence with a non-empty cell
\* set has count = 0 or count = |cells|.
HarvestComplete ==
    Returned =>
        \A s \in Stored :
            s.cells # {} => (s.count # 0 /\ s.count # Cardinality(s.cells))

\* C6: when add_knowledge has returned, no cell of a stored sentence is in
\* safes or in mines.
StoredCellsUnknown ==
    Returned =>
        \A s \in Stored : s.cells \cap (safes \cup mines) = {}

\* C7: a new sentence with an empty cell set is not appended, and when
\* add_knowledge returns no stored sentence has an empty cell set.
NoEmptySentence ==
    /\ (pc = "infer" /\ pos = 1) => knowledge[Len(knowledge)].cells # {}
    /\ Returned => \A s \in Stored : s.cells # {}

\* C8: when add_knowledge returns, no two sentences of the store are equal.
NoDuplicates ==
    Returned =>
        \A a, b \in DOMAIN knowledge :
            a # b => ~Sentence_eq(knowledge[a], knowledge[b])

\* C9: with true observations of a fixed board and driver calls of mark_mine
\* on actual mines, every stored sentence and every inferred sentence has
\* 0 <= count <= |cells|, in every state of the pass.
CountBounds ==
    \A s \in Stored \cup Pending :
        0 <= s.count /\ s.count <= Cardinality(s.cells)

\* After a driver call of mark_mine on an actual mine, a later pass holds an
\* inferred sentence.
CountBoundsWitness ==
    /\ marks > 0
    /\ mines # {}
    /\ pc = "infer"
    /\ inferences # << >>

\* C10: make_safe_move returns None exactly when safes - moves_made is empty,
\* and otherwise a cell of safes that is not in moves_made.
SafeMoveResult ==
    last = "make_safe_move" =>
        /\ (ret = None) <=> (safes \ moves_made = {})
        /\ \A cell \in ret : cell \in safes /\ cell \notin moves_made

\* make_safe_move returned a cell while some safe cells were already played.
SafeMoveResultWitness ==
    /\ last = "make_safe_move"
    /\ ret # None
    /\ safes \cap moves_made # {}

\* C11: make_random_move returns None exactly when every cell of the grid is
\* in moves_made or mines, otherwise a cell of the grid in neither; and every
\* such cell is a possible result: it is still in possible_moves at the head
\* of every iteration, and the iteration can return it.
RandomMoveResult ==
    LET eligible == {c \in Cells : c \notin moves_made /\ c \notin mines}
    IN  /\ (last = "make_random_move" /\ pc = "idle") =>
               /\ (ret = None) <=> (eligible = {})
               /\ ret \subseteq eligible
        /\ pc = "random" =>
               \A c \in eligible :
                   /\ c \in possible_moves
                   /\ ENABLED (make_random_move_draw /\ ret' = Some(c))

\* make_random_move returned a cell of a grid that has played cells and known
\* mines, after it had drawn and dropped some of these.
RandomMoveResultWitness ==
    /\ last = "make_random_move"
    /\ pc = "idle"
    /\ ret # None
    /\ moves_made # {}
    /\ mines # {}

\* C12: make_safe_move is read-only: a call leaves safes, mines, moves_made
\* and every sentence of the store as they were, whether it returns a cell or
\* None.
SafeMoveReadOnly ==
    [][last' = "make_safe_move" =>
           /\ safes' = safes
           /\ mines' = mines
           /\ moves_made' = moves_made
           /\ knowledge' = knowledge]_vars

\* make_safe_move returned a cell while the store held sentences.
SafeMoveReadOnlyWitness ==
    /\ last = "make_safe_move"
    /\ ret # None
    /\ knowledge # << >>
    /\ mines # {}

\* C13 as stated: on the board with one mine at (2,2), when the first call
\* add_knowledge((0,0), 0) returns, the 8 cells around (0,0) are safe.
EndToEndEightSafe ==
    (Returned /\ board = {<<2, 2>>} /\ moves_made = {<<0, 0>>}) =>
        \A c \in ((-1 .. 1) \X (-1 .. 1)) \ {<<0, 0>>} : c \in safes

\* C13: on the board with one mine at (2,2), the first call
\* add_knowledge((0,0), 0) marks the 3 cells of the grid around (0,0) safe by
\* the time it returns; the inference loop marks nothing and infers nothing,
\* the cells are marked by the harvest of the sentence with count 0.
EndToEndScenario ==
    (board = {<<2, 2>>} /\ moves_made = {<<0, 0>>}) =>
        /\ pc = "infer" =>
               /\ safes = {<<0, 0>>}
               /\ mines = {}
               /\ inferences = << >>
               /\ knowledge = <<Sentence({<<0, 1>>, <<1, 0>>, <<1, 1>>}, 0)>>
        /\ Returned =>
               /\ safes = {<<0, 0>>, <<0, 1>>, <<1, 0>>, <<1, 1>>}
               /\ mines = {}
               /\ knowledge = << >>

\* The first call add_knowledge((0,0), 0) has returned on that board.
EndToEndScenarioWitness ==
    /\ Returned
    /\ board = {<<2, 2>>}
    /\ moves_made = {<<0, 0>>}

\* C14: every call of add_knowledge terminates: whenever a call is in its
\* inference or harvest pass, it eventually returns and the AI is at rest.
Termination == (pc # "idle") ~> (pc = "idle")

\* A call that ran both passes over a store of several sentences has returned.
TerminationWitness ==
    /\ Returned
    /\ Len(knowledge) >= 2
    /\ Cardinality(moves_made) = MaxCalls

\* C15: subset inference against the new sentence: when add_knowledge returns,
\* every cell owed by a stored sentence that was a strict subset or superset
\* of the new sentence at the moment it was appended is marked: in safes when
\* the two counts were equal, in mines when the count difference was the size
\* of the set difference.
SubsetInference ==
    Returned => due.safe \subseteq safes /\ due.mine \subseteq mines

\* A call has returned whose new sentence owed a mine to one stored sentence
\* and a safe cell to another.
SubsetInferenceWitness ==
    /\ Returned
    /\ due.safe # {}
    /\ due.mine # {}

Abs(n) == IF n < 0 THEN -n ELSE n

\* The cells of the grid at Chebyshev distance 1 from cell.
Around(cell) ==
    {c \in Cells : c # cell /\ Abs(c[1] - cell[1]) <= 1 /\ Abs(c[2] - cell[2]) <= 1}

\* C16: the sentence add_knowledge(cell, count) appends has as cells exactly
\* the cells of the grid at Chebyshev distance 1 from cell that are in neither
\* safes nor mines at that moment, and as count the given count minus the
\* number of those neighbours that are in mines; neighbours known safe do not
\* change the count.
NewSentenceConstruction ==
    [][(pc = "idle" /\ pc' = "infer") =>
           \A c \in call' :
               LET N == knowledge'[Len(knowledge')]
               IN  /\ Len(knowledge') = Len(knowledge) + 1
                   /\ N.cells = {d \in Around(c.cell) :
                                     d \notin safes /\ d \notin mines}
                   /\ N.count = c.count - Cardinality(Around(c.cell) \cap mines)]_vars

\* add_knowledge has just appended the sentence of a cell that has a neighbour
\* known to be a mine, a neighbour known safe and a neighbour of unknown
\* status.
NewSentenceConstructionWitness ==
    /\ pc = "infer"
    /\ pos = 1
    /\ \E c \in call :
           /\ Around(c.cell) \cap mines # {}
           /\ Around(c.cell) \cap safes # {}
           /\ knowledge[Len(knowledge)].cells # {}
           /\ knowledge[Len(knowledge)].count < c.count

\* C17: the store-level mark_mine(cell) adds cell to mines and, in every
\* stored sentence that contains cell, removes it and decrements the count;
\* it leaves safes, moves_made, the number and order of the stored sentences
\* and every sentence without cell as they were, and removes no sentence that
\* thereby reaches count = 0 or count = number of cells.  mark_safe(cell) is
\* symmetric with safes, and changes no count.
MarkFrame ==
    [][marks' = marks + 1 =>
           \A c \in call' :
               /\ moves_made' = moves_made
               /\ Len(knowledge') = Len(knowledge)
               /\ last' = "mark_mine" =>
                      /\ mines' = mines \cup {c.cell}
                      /\ safes' = safes
                      /\ \A n \in DOMAIN knowledge :
                             IF c.cell \in knowledge[n].cells
                                 THEN /\ knowledge'[n].cells = knowledge[n].cells \ {c.cell}
                                      /\ knowledge'[n].count = knowledge[n].count - 1
                                 ELSE knowledge'[n] = knowledge[n]
               /\ last' = "mark_safe" =>
                      /\ safes' = safes \cup {c.cell}
                      /\ mines' = mines
                      /\ \A n \in DOMAIN knowledge :
                             /\ knowledge'[n].cells = knowledge[n].cells \ {c.cell}
                             /\ knowledge'[n].count = knowledge[n].count]_vars

\* mark_mine(cell) has just been called and the store still holds a sentence
\* with cells left that could be harvested.
MarkFrameWitness ==
    /\ last = "mark_mine"
    /\ \E c \in call : c.cell \notin safes
    /\ \E n \in DOMAIN knowledge :
           /\ knowledge[n].cells # {}
           /\ \/ knowledge[n].count = 0
              \/ knowledge[n].count = Cardinality(knowledge[n].cells)

\* C18: Sentence.mark_mine(cell) and Sentence.mark_safe(cell) leave a sentence
\* that does not contain cell as it was, and applying either a second time
\* with the same cell changes nothing more; mark_mine decrements the count
\* exactly when the cell was a member, mark_safe never changes it.
SentenceMarkIdempotent ==
    [][pc = "sentence" =>
           \A c \in call' :
               LET s == knowledge[1]
                   t == knowledge'[1]
               IN  /\ c.cell \notin s.cells => t = s
                   /\ c.again => t = s
                   /\ c.cell \in s.cells =>
                          /\ t.cells = s.cells \ {c.cell}
                          /\ t.count = IF last' = "Sentence.mark_mine"
                                           THEN s.count - 1
                                           ELSE s.count]_vars

\* mark_mine has been applied a second time in a row with the same cell, to a
\* sentence that still has cells.
SentenceMarkIdempotentWitness ==
    /\ pc = "sentence"
    /\ last = "Sentence.mark_mine"
    /\ marks = 2
    /\ \E c \in call : c.again
    /\ knowledge[1].cells # {}
    /\ knowledge[1].count = 0

\* C19: every sentence stays true of the board: in every reachable state, in
\* the middle of a pass included, each stored sentence and each inferred
\* sentence waiting in `inferences` has as count the number of mines of the
\* board among its cells.
SentencesTrue ==
    \A s \in Stored \cup Pending : Cardinality(s.cells \cap board) = s.count

\* In the middle of the inference pass, with a mine already known, an inferred
\* sentence about several cells and at least one mine is waiting, and the
\* store holds a sentence with cells and mines left.
SentencesTrueWitness ==
    /\ pc = "infer"
    /\ mines # {}
    /\ \E s \in Pending : Cardinality(s.cells) >= 2 /\ s.count >= 1
    /\ \E s \in Stored : s.cells # {} /\ s.count >= 1

\* C20: every probed cell is known safe and never known to be a mine:
\* moves_made is a subset of safes and disjoint from mines in every reachable
\* state, and after add_knowledge(cell, count) has returned, cell is in both
\* moves_made and safes.
ProbedSafe ==
    /\ moves_made \subseteq safes
    /\ moves_made \cap mines = {}
    /\ Returned => \A c \in call : c.cell \in moves_made /\ c.cell \in safes

\* Several cells have been probed, the last call has returned, and the AI
\* knows a mine and a safe cell it has not probed.
ProbedSafeWitness ==
    /\ Returned
    /\ Cardinality(moves_made) >= 2
    /\ mines # {}
    /\ safes \ moves_made # {}

====
